---- MODULE Spec2Model ----
(***************************************************************************)
(* Task Manager backend (src/backend/app.py): a Flask application over     *)
(* three MongoDB collections (users, sessions, tasks).                     *)
(*                                                                         *)
(* A request is run by a worker p.  Every action is one atomic store       *)
(* operation of a handler together with the local computation around it;   *)
(* a handler that performs several store operations is a chain of actions  *)
(* linked by the worker's pc.  Under Spec a request runs to its response   *)
(* before the next one starts; under SpecConc the workers interleave at    *)
(* the store operations.  SpecOwn (two users) and SpecTask (one user) run  *)
(* the task endpoints, one request at a time; SpecRace interleaves them.   *)
(* SpecList creates and lists, SpecGate sends every protected request      *)
(* with and without a valid token, SpecBearer every form of header.        *)
(*                                                                         *)
(* Modelling assumptions, stated once:                                     *)
(*  - secrets.token_hex and ObjectId generation never repeat a value;      *)
(*  - hashlib.sha256 is injective on the passwords used;                   *)
(*  - datetime.now() never goes backwards, and the store returns a time    *)
(*    as it was written;                                                   *)
(*  - request bodies are JSON objects whose values are strings, booleans   *)
(*    or null (written here as strings).                                   *)
(***************************************************************************)
EXTENDS Integers, Sequences, FiniteSets, TLC

\* ------------------------------------------------------------------ bounds
MaxTime == 3        \* the clock runs over 0..MaxTime
MaxLogins == 3      \* tokens generated by secrets.token_hex
MaxTasks == 2       \* ObjectIds generated by insert_one on tasks
MaxListTasks == 3   \* the same, where tasks are only created and listed

\* timedelta(hours=24), in clock ticks of 24 hours
SessionTTL == 1

\* request workers; Spec uses the first only
Workers == {"w1", "w2"}

\* ------------------------------------------------------------ JSON values
None == "null"
JTrue == "true"
JFalse == "false"

\* Python truthiness of a JSON value: `not v`
Falsy(v) == v \in {None, "", JFalse}

\* dict.get(key, default)
Get(d, k, default) == IF k \in DOMAIN d THEN d[k] ELSE default

EmptyBody == [k \in {} |-> None]

\* ------------------------------------------------------------------ tokens
\* The literal "Bearer " is one atom of a header; every other atom is one
\* character.  "Bearer " has no proper prefix that is also a suffix, so a
\* header splits uniquely into its occurrences and the characters between.
Bearer == "Bearer "
HexChars == <<"a", "b", "c">>

\* secrets.token_hex: the n-th token generated, all distinct
TokenHex(n) == << HexChars[(((n - 1) \div 3) % 3) + 1], HexChars[((n - 1) % 3) + 1] >>

\* str.replace('Bearer ', ''): every occurrence is removed
StripBearer(h) == SelectSeq(h, LAMBDA c : c # Bearer)

\* ------------------------------------------------------------- credentials
\* hashlib.sha256(password.encode()).hexdigest()
hash_password(password) == "sha256:" \o password

\* ------------------------------------------------------------- ObjectId
\* str(ObjectId): the 24-hex-digit rendering of the n-th generated id
OidStr(n) == <<"oid", n>>
MalformedId == <<"bad", 0>>
\* ObjectId(task_id) raises InvalidId unless the string is well formed
OidValid(s) == s[1] = "oid"
ObjectId(s) == s[2]

\* datetime.isoformat(): a string of fixed layout, here the two digits of
\* the day
IsoFormat(t) == <<t \div 10, t % 10>>

VARIABLES
    users_collection,     \* set of user documents
    sessions_collection,  \* set of session documents
    tasks_collection,     \* set of task documents
    issued,               \* issued[n]: the user the n-th token was generated for
    oids,                 \* ObjectIds generated so far
    now,                  \* datetime.now()
    w                     \* w[p]: the request worker p runs, and its response

vars == <<users_collection, sessions_collection, tasks_collection, issued, oids, now, w>>
store == <<users_collection, sessions_collection, tasks_collection>>

Idle ==
    [pc |-> "idle", kind |-> "none", hdr |-> <<>>, token |-> <<>>, uid |-> None,
     body |-> EmptyBody, tid |-> MalformedId, t |-> 0, status |-> 0, out |-> <<>>,
     err |-> "", solo |-> FALSE]

Init ==
    /\ users_collection = {}
    /\ sessions_collection = {}
    /\ tasks_collection = {}
    /\ issued = <<>>
    /\ oids = 0
    /\ now = 0
    /\ w = [p \in Workers |-> Idle]

\* a worker takes a new request when it has answered the previous one
Free(p) == w[p].pc \in {"idle", "done"}

\* return jsonify(out), status
Respond(r, status, out) == [r EXCEPT !.pc = "done", !.status = status, !.out = out]

\* return jsonify({'error': message}), status
Fail(r, status, message) == [r EXCEPT !.pc = "done", !.status = status, !.err = message]

\* an exception no handler catches: Flask answers 500 with its own page,
\* not with a JSON error body
Crash(r) == [r EXCEPT !.pc = "done", !.status = 500]

\* ---------------------------------------------------------------- clock
Tick ==
    /\ now < MaxTime
    /\ now' = now + 1
    /\ UNCHANGED <<store, issued, oids, w>>

\* ------------------------------------------------------------ Auth Gate
\* What the wrapped handler does before its first store operation.
\* verify() has none and answers; create_task validates the title.
Enter(r) ==
    CASE r.kind = "verify" -> Respond(r, 200, <<JTrue, r.uid>>)
      [] r.kind = "logout" -> [r EXCEPT !.pc = "logout_delete"]
      [] r.kind = "list"   -> [r EXCEPT !.pc = "get_tasks_find"]
      [] r.kind = "create" ->
            IF Falsy(Get(r.body, "title", None))
            THEN Fail(r, 400, "Title is required")
            ELSE [r EXCEPT !.pc = "create_task_insert"]
      [] r.kind = "update" -> [r EXCEPT !.pc = "update_task_find"]
      [] r.kind = "delete" -> [r EXCEPT !.pc = "delete_task_delete"]

\* mutant: a session is expired from the instant of its expiry on
Gate_le(r, hdr, found, time) ==
    IF hdr = <<>>
    THEN Fail(r, 401, "No token provided")
    ELSE IF found = {}
    THEN Fail(r, 401, "Invalid token")
    ELSE LET session == CHOOSE s \in found : TRUE
         IN  IF session.expires <= time
             THEN [r EXCEPT !.pc = "verify_token_evict"]
             ELSE Enter([r EXCEPT !.uid = session.user_id])

\* mutant: a token without a session reaches the handler
Gate_open(r, hdr, found, time) ==
    IF hdr = <<>>
    THEN Fail(r, 401, "No token provided")
    ELSE IF found = {}
    THEN Enter(r)
    ELSE LET session == CHOOSE s \in found : TRUE
         IN  IF session.expires < time
             THEN [r EXCEPT !.pc = "verify_token_evict"]
             ELSE Enter([r EXCEPT !.uid = session.user_id])

\* The decision of the decorator once find_one has answered `found`
\* (the sessions whose token is the stripped header; the token is unique).
Gate(r, hdr, found, time) ==
    IF hdr = <<>>
    THEN Fail(r, 401, "No token provided")
    ELSE IF found = {}
    THEN Fail(r, 401, "Invalid token")
    ELSE LET session == CHOOSE s \in found : TRUE
         IN  IF session.expires < time
             THEN [r EXCEPT !.pc = "verify_token_evict"]
             ELSE Enter([r EXCEPT !.uid = session.user_id])

\* decorated(): header, find_one on sessions, expiry check, then the handler
verify_token(p, kind, hdr, body, tid) ==
    /\ Free(p)
    /\ LET token == StripBearer(hdr)
           found == {s \in sessions_collection : s.token = token}
           r == [Idle EXCEPT !.kind = kind, !.hdr = hdr, !.token = token, !.body = body,
                             !.tid = tid, !.t = now]
       IN  w' = [w EXCEPT ![p] = Gate(r, hdr, found, now)]
    /\ UNCHANGED <<store, issued, oids, now>>

\* mutant: the expired session is reported but not deleted
verify_token_evict_keep(p) ==
    /\ w[p].pc = "verify_token_evict"
    /\ w' = [w EXCEPT ![p] = Fail(w[p], 401, "Token expired")]
    /\ UNCHANGED <<store, issued, oids, now>>

\* sessions_collection.delete_one({'token': token}) of an expired session
verify_token_evict(p) ==
    /\ w[p].pc = "verify_token_evict"
    /\ sessions_collection' = {s \in sessions_collection : s.token # w[p].token}
    /\ w' = [w EXCEPT ![p] = Fail(w[p], 401, "Token expired")]
    /\ UNCHANGED <<users_collection, tasks_collection, issued, oids, now>>

\* --------------------------------------------------------------- register
\* The answer of register once find_one({'$or': ...}) has answered
RegisterCheck(r, existing) ==
    LET username == Get(r.body, "username", None)
        password == Get(r.body, "password", None)
        email == Get(r.body, "email", None)
    IN  IF Falsy(username) \/ Falsy(password) \/ Falsy(email)
        THEN Fail(r, 400, "All fields are required")
        ELSE IF existing
        THEN Fail(r, 400, "Username or email already exists")
        ELSE [r EXCEPT !.pc = "register_insert"]

\* mutant: the query matches on the username alone
UserClash_username(username, email) ==
    \E u \in users_collection : u.username = username

\* a document matching {'$or': [{'username': username}, {'email': email}]}
UserClash(username, email) ==
    \E u \in users_collection : u.username = username \/ u.email = email

register(p, body) ==
    /\ Free(p)
    /\ LET r == [Idle EXCEPT !.kind = "register", !.body = body]
       IN  w' = [w EXCEPT ![p] = RegisterCheck(r,
                    UserClash(Get(body, "username", None), Get(body, "email", None)))]
    /\ UNCHANGED <<store, issued, oids, now>>

\* users_collection.insert_one(user) under the two unique indexes: a
\* duplicate key raises DuplicateKeyError, which register does not catch,
\* so Flask answers 500.
register_insert(p) ==
    /\ w[p].pc = "register_insert"
    /\ LET r == w[p]
           user == [username |-> r.body["username"],
                    email |-> r.body["email"],
                    password |-> hash_password(r.body["password"])]
       IN  IF UserClash(user.username, user.email)
           THEN /\ users_collection' = users_collection
                /\ w' = [w EXCEPT ![p] = Crash(r)]
           ELSE /\ users_collection' = users_collection \cup {user}
                /\ w' = [w EXCEPT ![p] = Respond(r, 201, <<"User registered successfully">>)]
    /\ UNCHANGED <<sessions_collection, tasks_collection, issued, oids, now>>

\* mutant: the stored hash is compared with the password as sent
LoginCheck_plain(r, found, fresh) ==
    LET username == Get(r.body, "username", None)
        password == Get(r.body, "password", None)
    IN  IF Falsy(username) \/ Falsy(password)
        THEN Fail(r, 400, "Username and password required")
        ELSE IF found = {}
        THEN Fail(r, 401, "Invalid credentials")
        ELSE LET user == CHOOSE u \in found : TRUE
             IN  IF user.password # password
                 THEN Fail(r, 401, "Invalid credentials")
                 ELSE [r EXCEPT !.pc = "login_delete_many", !.token = fresh,
                                !.uid = username, !.out = <<fresh, username, user.email>>]

\* ------------------------------------------------------------------ login
\* The answer of login once find_one({'username': username}) has answered;
\* on success the token is generated and carried to the store operations.
LoginCheck(r, found, fresh) ==
    LET username == Get(r.body, "username", None)
        password == Get(r.body, "password", None)
    IN  IF Falsy(username) \/ Falsy(password)
        THEN Fail(r, 400, "Username and password required")
        ELSE IF found = {}
        THEN Fail(r, 401, "Invalid credentials")
        ELSE LET user == CHOOSE u \in found : TRUE
             IN  IF user.password # hash_password(password)
                 THEN Fail(r, 401, "Invalid credentials")
                 ELSE [r EXCEPT !.pc = "login_delete_many", !.token = fresh,
                                !.uid = username, !.out = <<fresh, username, user.email>>]

\* mutant: the sessions of the named user are deleted before the
\* credentials are checked
login_eager(p, body) ==
    /\ Free(p)
    /\ LET r == [Idle EXCEPT !.kind = "login", !.body = body]
           found == {u \in users_collection : u.username = Get(body, "username", None)}
           next == LoginCheck(r, found, TokenHex(Len(issued) + 1))
       IN  /\ w' = [w EXCEPT ![p] = next]
           /\ IF next.pc = "login_delete_many"
              THEN Len(issued) < MaxLogins /\ issued' = Append(issued, next.uid)
              ELSE issued' = issued
    /\ sessions_collection' =
          {s \in sessions_collection : s.user_id # Get(body, "username", None)}
    /\ UNCHANGED <<users_collection, tasks_collection, oids, now>>

login(p, body) ==
    /\ Free(p)
    /\ LET r == [Idle EXCEPT !.kind = "login", !.body = body]
           found == {u \in users_collection : u.username = Get(body, "username", None)}
           next == LoginCheck(r, found, TokenHex(Len(issued) + 1))
       IN  /\ w' = [w EXCEPT ![p] = next]
           /\ IF next.pc = "login_delete_many"
              THEN Len(issued) < MaxLogins /\ issued' = Append(issued, next.uid)
              ELSE issued' = issued
    /\ UNCHANGED <<store, oids, now>>

\* History kept for the workers: r.solo says that no store operation of
\* another login for the same user has run since r's own delete_many.
Disturb(r, username) ==
    IF r.pc = "login_insert" /\ r.uid = username THEN [r EXCEPT !.solo = FALSE] ELSE r

\* mutant: the sessions of the user are not deleted
login_delete_many_skip(p) ==
    /\ w[p].pc = "login_delete_many"
    /\ w' = [q \in Workers |->
                IF q = p THEN [w[p] EXCEPT !.pc = "login_insert", !.solo = TRUE]
                ELSE Disturb(w[q], w[p].uid)]
    /\ UNCHANGED <<store, issued, oids, now>>

\* mutant: delete_many filters on the new token instead of the user
login_delete_many_token(p) ==
    /\ w[p].pc = "login_delete_many"
    /\ sessions_collection' = {s \in sessions_collection : s.token # w[p].token}
    /\ w' = [q \in Workers |->
                IF q = p THEN [w[p] EXCEPT !.pc = "login_insert", !.solo = TRUE]
                ELSE Disturb(w[q], w[p].uid)]
    /\ UNCHANGED <<users_collection, tasks_collection, issued, oids, now>>

\* sessions_collection.delete_many({'user_id': username})
login_delete_many(p) ==
    /\ w[p].pc = "login_delete_many"
    /\ sessions_collection' = {s \in sessions_collection : s.user_id # w[p].uid}
    /\ w' = [q \in Workers |->
                IF q = p THEN [w[p] EXCEPT !.pc = "login_insert", !.solo = TRUE]
                ELSE Disturb(w[q], w[p].uid)]
    /\ UNCHANGED <<users_collection, tasks_collection, issued, oids, now>>

\* the session document of login
NewSession(token, username, time) ==
    [token |-> token, user_id |-> username, expires |-> time + SessionTTL]

\* sessions_collection.insert_one(session), then the 200 response
login_insert(p) ==
    /\ w[p].pc = "login_insert"
    /\ sessions_collection' =
          sessions_collection \cup {NewSession(w[p].token, w[p].uid, now)}
    /\ w' = [q \in Workers |->
                IF q = p THEN Respond([w[p] EXCEPT !.t = now], 200, w[p].out)
                ELSE Disturb(w[q], w[p].uid)]
    /\ UNCHANGED <<users_collection, tasks_collection, issued, oids, now>>

\* mutant: logout deletes every session
logout_all(p) ==
    /\ w[p].pc = "logout_delete"
    /\ sessions_collection' = {}
    /\ w' = [w EXCEPT ![p] = Respond(w[p], 200, <<"Logged out successfully">>)]
    /\ UNCHANGED <<users_collection, tasks_collection, issued, oids, now>>

\* ----------------------------------------------------------------- logout
\* sessions_collection.delete_one({'token': token})
logout(p) ==
    /\ w[p].pc = "logout_delete"
    /\ sessions_collection' = {s \in sessions_collection : s.token # w[p].token}
    /\ w' = [w EXCEPT ![p] = Respond(w[p], 200, <<"Logged out successfully">>)]
    /\ UNCHANGED <<users_collection, tasks_collection, issued, oids, now>>

\* ------------------------------------------------------------------ tasks
\* the JSON rendering of a task document: id as a string, the two
\* timestamps as ISO strings
TaskJson(task) ==
    [task EXCEPT !.id = OidStr(task.id),
                 !.created_at = IsoFormat(task.created_at),
                 !.updated_at = IsoFormat(task.updated_at)]

\* find(): the matching documents in natural (insertion) order
RECURSIVE NaturalOrder(_)
NaturalOrder(docs) ==
    IF docs = {} THEN <<>>
    ELSE LET first == CHOOSE d \in docs : \A e \in docs : d.id <= e.id
         IN  <<first>> \o NaturalOrder(docs \ {first})

\* str < str: at the first position where the strings differ the character
\* of a is the smaller one, or a ends there
IsoLess(a, b) ==
    \E i \in 1..Len(b) :
        /\ \A j \in 1..(i - 1) : j <= Len(a) /\ a[j] = b[j]
        /\ (i > Len(a) \/ a[i] < b[i])

\* list.sort(key=created_at, reverse=True): stable, so x goes behind every
\* element already placed whose key is not smaller
RECURSIVE InsertDesc(_, _)
InsertDesc(x, s) ==
    IF s = <<>> THEN <<x>>
    ELSE IF IsoLess(s[1].created_at, x.created_at)
    THEN <<x>> \o s
    ELSE <<s[1]>> \o InsertDesc(x, Tail(s))

\* mutant: the list is answered in the order find() returned it
SortNewestFirst_none(todo, placed) == todo

RECURSIVE SortNewestFirst(_, _)
SortNewestFirst(todo, placed) ==
    IF todo = <<>> THEN placed
    ELSE SortNewestFirst(Tail(todo), InsertDesc(todo[1], placed))

\* tasks_collection.find({'user_id': request.user_id}), formatted and sorted
get_tasks(p) ==
    /\ w[p].pc = "get_tasks_find"
    /\ LET mine == NaturalOrder({d \in tasks_collection : d.user_id = w[p].uid})
           json == [i \in 1..Len(mine) |-> TaskJson(mine[i])]
       IN  w' = [w EXCEPT ![p] = Respond(w[p], 200, SortNewestFirst(json, <<>>))]
    /\ UNCHANGED <<store, issued, oids, now>>

\* mutant: completed is taken from the request
NewTask_completed(oid, uid, data, created, updated) ==
    [id |-> oid,
     title |-> data["title"],
     description |-> Get(data, "description", ""),
     completed |-> Get(data, "completed", JFalse),
     user_id |-> uid,
     due_date |-> Get(data, "due_date", None),
     due_time |-> Get(data, "due_time", None),
     category |-> Get(data, "category", "general"),
     created_at |-> created,
     updated_at |-> updated]

\* the document create_task builds; created_at and updated_at are two
\* reads of the clock
NewTask(oid, uid, data, created, updated) ==
    [id |-> oid,
     title |-> data["title"],
     description |-> Get(data, "description", ""),
     completed |-> JFalse,
     user_id |-> uid,
     due_date |-> Get(data, "due_date", None),
     due_time |-> Get(data, "due_time", None),
     category |-> Get(data, "category", "general"),
     created_at |-> created,
     updated_at |-> updated]

\* tasks_collection.insert_one(task), then the 201 response
create_task(p) ==
    /\ w[p].pc = "create_task_insert"
    /\ oids' = oids + 1
    /\ \E later \in {now, IF now < MaxTime THEN now + 1 ELSE now} :
          LET task == NewTask(oids + 1, w[p].uid, w[p].body, now, later)
          IN  /\ now' = later
              /\ tasks_collection' = tasks_collection \cup {task}
              /\ w' = [w EXCEPT ![p] = Respond(w[p], 201, <<TaskJson(task)>>)]
    /\ UNCHANGED <<users_collection, sessions_collection, issued>>

\* mutant: the lookup filters on the id alone
update_task_find_any(p) ==
    /\ w[p].pc = "update_task_find"
    /\ LET r == w[p]
           found == {d \in tasks_collection : d.id = ObjectId(r.tid)}
       IN  w' = [w EXCEPT ![p] =
                  IF ~OidValid(r.tid) THEN Fail(r, 400, "Invalid task ID")
                  ELSE IF found = {} THEN Fail(r, 404, "Task not found")
                  ELSE [r EXCEPT !.pc = "update_task_update", !.t = now]]
    /\ UNCHANGED <<store, issued, oids, now>>

\* update_task up to find_one({'_id': ObjectId(task_id), 'user_id': ...})
update_task_find(p) ==
    /\ w[p].pc = "update_task_find"
    /\ LET r == w[p]
           found == {d \in tasks_collection :
                        d.id = ObjectId(r.tid) /\ d.user_id = r.uid}
       IN  w' = [w EXCEPT ![p] =
                  IF ~OidValid(r.tid) THEN Fail(r, 400, "Invalid task ID")
                  ELSE IF found = {} THEN Fail(r, 404, "Task not found")
                  ELSE [r EXCEPT !.pc = "update_task_update", !.t = now]]
    /\ UNCHANGED <<store, issued, oids, now>>

\* mutant: the document is replaced, a field absent from the request is
\* reset
SetFields_replace(doc, data, time) ==
    [doc EXCEPT !.updated_at = time,
                !.title = Get(data, "title", doc.title),
                !.description = Get(data, "description", ""),
                !.completed = Get(data, "completed", JFalse),
                !.due_date = Get(data, "due_date", None),
                !.due_time = Get(data, "due_time", None),
                !.category = Get(data, "category", "general")]

\* {'$set': update_data} applied to one document: updated_at, and the six
\* fields the handler copies from the request when they are present
SetFields(doc, data, time) ==
    LET pick(k) == IF k \in DOMAIN data THEN data[k] ELSE doc[k]
    IN  [doc EXCEPT !.updated_at = time,
                    !.title = pick("title"),
                    !.description = pick("description"),
                    !.completed = pick("completed"),
                    !.due_date = pick("due_date"),
                    !.due_time = pick("due_time"),
                    !.category = pick("category")]

\* mutant: update_one with upsert, a document is inserted when none matches
update_task_update_upsert(p) ==
    /\ w[p].pc = "update_task_update"
    /\ LET blank == NewTask(ObjectId(w[p].tid), None, [title |-> None], w[p].t, w[p].t)
       IN  tasks_collection' =
              IF \E d \in tasks_collection : d.id = ObjectId(w[p].tid)
              THEN {IF d.id = ObjectId(w[p].tid)
                    THEN SetFields(d, w[p].body, w[p].t) ELSE d : d \in tasks_collection}
              ELSE tasks_collection \cup {SetFields(blank, w[p].body, w[p].t)}
    /\ w' = [w EXCEPT ![p].pc = "update_task_reread"]
    /\ UNCHANGED <<users_collection, sessions_collection, issued, oids, now>>

\* tasks_collection.update_one({'_id': ObjectId(task_id)}, {'$set': ...})
update_task_update(p) ==
    /\ w[p].pc = "update_task_update"
    /\ tasks_collection' =
          {IF d.id = ObjectId(w[p].tid) THEN SetFields(d, w[p].body, w[p].t) ELSE d :
              d \in tasks_collection}
    /\ w' = [w EXCEPT ![p].pc = "update_task_reread"]
    /\ UNCHANGED <<users_collection, sessions_collection, issued, oids, now>>

\* find_one({'_id': ObjectId(task_id)}) and the response; subscripting the
\* None of a vanished document raises TypeError, which the handler's
\* except clause answers with 400
update_task_reread(p) ==
    /\ w[p].pc = "update_task_reread"
    /\ LET found == {d \in tasks_collection : d.id = ObjectId(w[p].tid)}
       IN  w' = [w EXCEPT ![p] =
                  IF found = {} THEN Fail(w[p], 400, "Invalid task ID")
                  ELSE Respond(w[p], 200, <<TaskJson(CHOOSE d \in found : TRUE)>>)]
    /\ UNCHANGED <<store, issued, oids, now>>

\* tasks_collection.delete_one({'_id': ObjectId(task_id), 'user_id': ...})
delete_task(p) ==
    /\ w[p].pc = "delete_task_delete"
    /\ LET r == w[p]
           found == {d \in tasks_collection :
                        d.id = ObjectId(r.tid) /\ d.user_id = r.uid}
       IN  IF ~OidValid(r.tid)
           THEN /\ tasks_collection' = tasks_collection
                /\ w' = [w EXCEPT ![p] = Fail(r, 400, "Invalid task ID")]
           ELSE IF found = {}
           THEN /\ tasks_collection' = tasks_collection
                /\ w' = [w EXCEPT ![p] = Fail(r, 404, "Task not found")]
           ELSE /\ tasks_collection' = tasks_collection \ found
                /\ w' = [w EXCEPT ![p] = Respond(r, 200, <<"Task deleted successfully">>)]
    /\ UNCHANGED <<users_collection, sessions_collection, issued, oids, now>>

\* ---------------------------------------------------------------- requests
\* ObjectIds generated, and those the creates in flight will generate
Creating == oids + Cardinality({q \in Workers : w[q].pc = "create_task_insert"})

Usernames == {"alice", "bob"}
Emails == {"a@x", "b@x"}

RegisterBodies ==
    [username : Usernames, email : Emails, password : {"pw"}]
        \cup {[username |-> "alice", email |-> "a@x"],
              [username |-> "", email |-> "a@x", password |-> "pw"]}

LoginBodies ==
    [username : Usernames, password : {"pw", "guess"}]
        \cup {[username |-> "alice"]}

\* Authorization headers: absent, the bare prefix, and for each token the
\* usual form, the token alone, and the prefix inside the token
Headers ==
    {<<>>, <<Bearer>>}
        \cup UNION {{<<Bearer>> \o TokenHex(n), TokenHex(n),
                     <<TokenHex(n)[1], Bearer, TokenHex(n)[2]>>} : n \in 1..MaxLogins}

\* the headers a client of the API sends: none, or "Bearer " and a token
AuthHeaders == {<<>>} \cup {<<Bearer>> \o TokenHex(n) : n \in 1..MaxLogins}

\* the steps that continue an authentication request in flight
AuthStep(p) ==
    \/ verify_token_evict(p)
    \/ register_insert(p)
    \/ login_delete_many(p)
    \/ login_insert(p)
    \/ logout(p)
    \/ get_tasks(p)

\* a new request arrives at worker p
AuthStart(p) ==
    \/ \E body \in RegisterBodies : register(p, body)
    \/ \E body \in LoginBodies : login(p, body)
    \/ \E hdr \in AuthHeaders, kind \in {"verify", "logout", "list"} :
          verify_token(p, kind, hdr, EmptyBody, MalformedId)

AllFree == \A p \in Workers : Free(p)

\* Spec: the authentication requests, one at a time, each running to its
\* response before the next arrives
Next ==
    \/ AllFree /\ Tick
    \/ AllFree /\ AuthStart("w1")
    \/ AuthStep("w1")

Spec == Init /\ [][Next]_vars

\* ------------------------------------------------------------ SpecConc
\* Two workers interleave at the store operations of register, login,
\* verify and logout.
ConcRegisterBodies ==
    {[username |-> "alice", email |-> "a@x", password |-> "pw"],
     [username |-> "alice", email |-> "b@x", password |-> "pw"],
     [username |-> "bob", email |-> "a@x", password |-> "pw"]}

ConcLoginBodies == [username : Usernames, password : {"pw"}]

ConcHeaders == {<<Bearer>> \o TokenHex(n) : n \in 1..MaxLogins}

ConcStep(p) ==
    \/ register_insert(p)
    \/ login_delete_many(p)
    \/ login_insert(p)
    \/ logout(p)

ConcStart(p) ==
    \/ \E body \in ConcRegisterBodies : register(p, body)
    \/ \E body \in ConcLoginBodies : login(p, body)
    \/ \E hdr \in ConcHeaders, kind \in {"verify", "logout"} :
          verify_token(p, kind, hdr, EmptyBody, MalformedId)

ConcNext == \E p \in Workers : ConcStart(p) \/ ConcStep(p)

SpecConc == Init /\ [][ConcNext]_vars

\* ------------------------------------------------------------- SpecOwn
\* Two users and their tasks, requests one at a time.  Each user logs in
\* once, and the clock moves only between the two reads of create_task.
OwnRegisterBodies ==
    {[username |-> "alice", email |-> "a@x", password |-> "pw"],
     [username |-> "bob", email |-> "b@x", password |-> "pw"]}

OwnLoginBodies == [username : Usernames, password : {"pw"}]

OwnHeaders == {<<Bearer>> \o TokenHex(n) : n \in 1..MaxLogins}

\* the ids of the tasks that may exist, and a malformed one
TaskIds == {OidStr(n) : n \in 1..MaxTasks} \cup {MalformedId}

OwnCreateBodies == {[title |-> "t"]}
OwnPatches == {[completed |-> JTrue]}

OwnStep(p) ==
    \/ verify_token_evict(p)
    \/ register_insert(p)
    \/ login_delete_many(p)
    \/ login_insert(p)
    \/ get_tasks(p)
    \/ create_task(p)
    \/ update_task_find(p)
    \/ update_task_update(p)
    \/ update_task_reread(p)
    \/ delete_task(p)

OwnStart(p) ==
    \/ \E body \in OwnRegisterBodies : register(p, body)
    \/ \E body \in OwnLoginBodies :
          /\ \A n \in 1..Len(issued) : issued[n] # body["username"]
          /\ login(p, body)
    \/ \E hdr \in OwnHeaders :
          \/ verify_token(p, "list", hdr, EmptyBody, MalformedId)
          \/ \E body \in OwnCreateBodies :
                /\ Creating < MaxTasks
                /\ verify_token(p, "create", hdr, body, MalformedId)
          \/ \E body \in OwnPatches, tid \in TaskIds :
                verify_token(p, "update", hdr, body, tid)
          \/ \E tid \in TaskIds :
                verify_token(p, "delete", hdr, EmptyBody, tid)

OwnNext ==
    \/ AllFree /\ OwnStart("w1")
    \/ OwnStep("w1")

SpecOwn == Init /\ [][OwnNext]_vars

\* ------------------------------------------------------------ SpecTask
\* One user, who logs in once, and her tasks; requests one at a time, with
\* the request bodies the task handlers distinguish.  The clock moves only
\* between the two reads of create_task.
TaskRegisterBodies == {[username |-> "alice", email |-> "a@x", password |-> "pw"]}
TaskLoginBodies == {[username |-> "alice", password |-> "pw"]}
TaskHeaders == {<<Bearer>> \o TokenHex(1)}
\* create bodies: a title only, no title, an empty title, every field
TaskCreateBodies ==
    {[title |-> "t"],
     EmptyBody,
     [title |-> ""],
     [title |-> "s", description |-> "d", completed |-> JTrue,
      due_date |-> "2024-01-01", due_time |-> "10:00", category |-> "work"]}

\* patches: empty, an empty title, two that split the six fields, one that
\* names the fields no update may change
TaskPatches ==
    {EmptyBody,
     [title |-> ""],
     [title |-> "u", description |-> "d", completed |-> JTrue],
     [due_date |-> "2024-01-01", due_time |-> "10:00", category |-> "work"],
     [id |-> "x", user_id |-> "bob", created_at |-> "x"]}

TaskStep(p) ==
    \/ verify_token_evict(p)
    \/ register_insert(p)
    \/ login_delete_many(p)
    \/ login_insert(p)
    \/ get_tasks(p)
    \/ create_task(p)
    \/ update_task_find(p)
    \/ update_task_update(p)
    \/ update_task_reread(p)
    \/ delete_task(p)

TaskStart(p) ==
    \/ \E body \in TaskRegisterBodies : register(p, body)
    \/ \E body \in TaskLoginBodies : issued = <<>> /\ login(p, body)
    \/ \E hdr \in TaskHeaders :
          \/ verify_token(p, "list", hdr, EmptyBody, MalformedId)
          \/ \E body \in TaskCreateBodies :
                /\ Creating < MaxTasks
                /\ verify_token(p, "create", hdr, body, MalformedId)
          \/ \E body \in TaskPatches, tid \in TaskIds :
                verify_token(p, "update", hdr, body, tid)
          \/ \E tid \in TaskIds :
                verify_token(p, "delete", hdr, EmptyBody, tid)

TaskNext ==
    \/ AllFree /\ TaskStart("w1")
    \/ TaskStep("w1")

SpecTask == Init /\ [][TaskNext]_vars

\* ---------------------------------------------------------- SpecBearer
\* One user who logs in repeatedly, and verify and logout requests under
\* every form of header, one at a time, while the clock runs.
BearerStep(p) ==
    \/ verify_token_evict(p)
    \/ register_insert(p)
    \/ login_delete_many(p)
    \/ login_insert(p)
    \/ logout(p)

BearerStart(p) ==
    \/ \E body \in TaskRegisterBodies : register(p, body)
    \/ \E body \in TaskLoginBodies : login(p, body)
    \/ \E hdr \in Headers, kind \in {"verify", "logout"} :
          verify_token(p, kind, hdr, EmptyBody, MalformedId)

BearerNext ==
    \/ AllFree /\ Tick
    \/ AllFree /\ BearerStart("w1")
    \/ BearerStep("w1")

SpecBearer == Init /\ [][BearerNext]_vars

\* ------------------------------------------------------------ SpecGate
\* Two users, each logging in once, and every protected request with no
\* header, with the token of either user or with a token never stored,
\* one at a time.  The clock moves only between the two reads of
\* create_task; update and delete name the first task.
GateHeaders ==
    {<<>>} \cup {<<Bearer>> \o TokenHex(n) : n \in 1..(Cardinality(Usernames) + 1)}

GateStep(p) ==
    \/ OwnStep(p)
    \/ logout(p)

GateStart(p) ==
    \/ \E body \in OwnRegisterBodies : register(p, body)
    \/ \E body \in OwnLoginBodies :
          /\ \A n \in 1..Len(issued) : issued[n] # body["username"]
          /\ login(p, body)
    \/ \E hdr \in GateHeaders :
          \/ \E kind \in {"verify", "logout", "list"} :
                verify_token(p, kind, hdr, EmptyBody, MalformedId)
          \/ \E body \in OwnCreateBodies :
                /\ Creating < MaxTasks
                /\ verify_token(p, "create", hdr, body, MalformedId)
          \/ \E body \in OwnPatches :
                verify_token(p, "update", hdr, body, OidStr(1))
          \/ verify_token(p, "delete", hdr, EmptyBody, OidStr(1))

GateNext ==
    \/ AllFree /\ GateStart("w1")
    \/ GateStep("w1")

SpecGate == Init /\ [][GateNext]_vars

\* ------------------------------------------------------------ SpecList
\* Two users who create and list tasks, requests one at a time.  A user
\* may log in again; the clock moves only between the two reads of
\* create_task.
ListStep(p) ==
    \/ verify_token_evict(p)
    \/ register_insert(p)
    \/ login_delete_many(p)
    \/ login_insert(p)
    \/ get_tasks(p)
    \/ create_task(p)

ListStart(p) ==
    \/ \E body \in OwnRegisterBodies : register(p, body)
    \/ \E body \in OwnLoginBodies : login(p, body)
    \/ \E hdr \in OwnHeaders :
          \/ verify_token(p, "list", hdr, EmptyBody, MalformedId)
          \/ \E body \in OwnCreateBodies :
                /\ Creating < MaxListTasks
                /\ verify_token(p, "create", hdr, body, MalformedId)

ListNext ==
    \/ AllFree /\ ListStart("w1")
    \/ ListStep("w1")

SpecList == Init /\ [][ListNext]_vars

\* ------------------------------------------------------------ SpecRace
\* One user, who logs in once, and her tasks: two workers interleave at
\* the store operations of the task handlers.
RaceCreateBodies == {[title |-> "t"]}
RacePatches == {[completed |-> JTrue]}

RaceStart(p) ==
    \/ \E body \in TaskRegisterBodies : Free(p) /\ users_collection = {} /\ register(p, body)
    \/ \E body \in TaskLoginBodies : issued = <<>> /\ login(p, body)
    \/ \E hdr \in TaskHeaders :
          \/ verify_token(p, "list", hdr, EmptyBody, MalformedId)
          \/ \E body \in RaceCreateBodies :
                /\ Creating < MaxTasks
                /\ verify_token(p, "create", hdr, body, MalformedId)
          \/ \E body \in RacePatches, tid \in TaskIds :
                verify_token(p, "update", hdr, body, tid)
          \/ \E tid \in TaskIds :
                verify_token(p, "delete", hdr, EmptyBody, tid)

RaceNext == \E p \in Workers : RaceStart(p) \/ TaskStep(p)

SpecRace == Init /\ [][RaceNext]_vars

\* ================================================================ claims
Protected == {"verify", "logout", "list", "create", "update", "delete"}

\* worker p takes a new request of one of `kinds` in this step
Starts(p, kinds) == Free(p) /\ w'[p] # w[p] /\ w'[p].kind \in kinds

\* worker p performs the store operation its pc names in this step
Runs(p, pc) == w[p].pc = pc /\ w'[p].pc # pc

SessionsOf(u) == {s \in sessions_collection : s.user_id = u}

\* C2: with requests run one at a time, the session store never holds two
\* session records of one user.
C2_SingleSession ==
    \A s1, s2 \in sessions_collection : s1.user_id = s2.user_id => s1 = s2

\* a second login of the same user has completed and left one record
C2_Witness ==
    /\ w["w1"].pc = "done" /\ w["w1"].kind = "login" /\ w["w1"].status = 200
    /\ Len(issued) = 2 /\ issued[1] = issued[2]
    /\ \E s \in sessions_collection :
          s.token = TokenHex(2) /\ SessionsOf(issued[2]) = {s}

\* the login that generated the n-th token has inserted its session
Inserted(n) ==
    \A p \in Workers :
        ~(w[p].pc \in {"login_delete_many", "login_insert"} /\ w[p].token = TokenHex(n))

\* a later login of the same user has completed
Superseded(m) ==
    \E n \in (m + 1)..Len(issued) : issued[n] = issued[m] /\ Inserted(n)

\* C3: once a second login of the user has completed, every validation of
\* the first token answers 401 Invalid token; a token whose session record
\* is in the store (not revoked, superseded or evicted) validates to the
\* user it was generated for.
C3_Supersession ==
    \A p \in Workers :
        (w[p].pc = "done" /\ w[p].kind \in Protected) =>
            /\ \A m \in 1..Len(issued) :
                  (w[p].token = TokenHex(m) /\ Superseded(m)) =>
                      (w[p].status = 401 /\ w[p].err = "Invalid token")
            /\ \A n \in 1..Len(issued) :
                  (w[p].token = TokenHex(n)
                      /\ \E s \in sessions_collection : s.token = TokenHex(n)) =>
                      (w[p].status = 200 /\ w[p].uid = issued[n])

\* the first token was refused while the second one is in the store
C3_Witness ==
    /\ w["w1"].pc = "done" /\ w["w1"].kind = "verify"
    /\ w["w1"].token = TokenHex(1) /\ w["w1"].status = 401
    /\ Len(issued) = 2 /\ issued[1] = issued[2]
    /\ \E s \in sessions_collection : s.token = TokenHex(2)

\* the body names a stored user and that user's password
Matches(body) ==
    \E u \in users_collection :
        /\ u.username = Get(body, "username", None)
        /\ u.password = hash_password(Get(body, "password", None))

\* C4: a login with the credentials of a stored user goes on to insert a
\* session and returns its token, and a validation of that token at the
\* same instant, with no request in between, resolves to that user; a login
\* whose password does not match is answered 401 Invalid credentials and
\* changes neither the stores nor the tokens generated.
C4_LoginCorrect ==
    [][\A p \in Workers :
        /\ Starts(p, {"login"}) =>
              LET body == w'[p].body
              IN  /\ Matches(body) =>
                        /\ w'[p].pc = "login_delete_many"
                        /\ w'[p].uid = body["username"]
                  /\ (~Falsy(Get(body, "username", None))
                        /\ ~Falsy(Get(body, "password", None))
                        /\ ~Matches(body)) =>
                        /\ w'[p].pc = "done"
                        /\ w'[p].status = 401
                        /\ w'[p].err = "Invalid credentials"
                        /\ UNCHANGED <<store, issued>>
        /\ Runs(p, "login_insert") =>
              /\ w'[p].pc = "done" /\ w'[p].status = 200
              /\ w'[p].out[1] = w[p].token
        /\ (w[p].pc = "done" /\ w[p].kind = "login" /\ w[p].status = 200
              /\ Starts(p, Protected)
              /\ w'[p].token = w[p].out[1] /\ now = w[p].t) =>
              /\ w'[p].status # 401
              /\ w'[p].pc # "verify_token_evict"
              /\ w'[p].uid = w[p].uid
      ]_vars

\* a token validated at the instant its login stored it
C4_Witness ==
    /\ w["w1"].pc = "done" /\ w["w1"].kind = "verify" /\ w["w1"].status = 200
    /\ \E s \in sessions_collection :
          /\ s.token = w["w1"].token
          /\ s.user_id = w["w1"].uid
          /\ s.expires = now + SessionTTL

\* C6: a validation that finds the token's session record expired answers
\* 401 Token expired and deletes that record and no other; the next
\* validation of the same token answers 401 Invalid token.
C6_LazyEviction ==
    [][\A p \in Workers :
        /\ (Starts(p, Protected)
              /\ \E s \in sessions_collection :
                    s.token = w'[p].token /\ s.expires < now) =>
              w'[p].pc = "verify_token_evict"
        /\ Runs(p, "verify_token_evict") =>
              /\ w'[p].pc = "done"
              /\ w'[p].status = 401
              /\ w'[p].err = "Token expired"
              /\ sessions_collection' =
                    sessions_collection \ {s \in sessions_collection : s.token = w[p].token}
              /\ sessions_collection' # sessions_collection
              /\ UNCHANGED <<users_collection, tasks_collection>>
        /\ (w[p].pc = "done" /\ w[p].err = "Token expired"
              /\ Starts(p, Protected) /\ w'[p].token = w[p].token) =>
              /\ w'[p].pc = "done"
              /\ w'[p].status = 401
              /\ w'[p].err = "Invalid token"
      ]_vars

\* an expired session was evicted while another user's session stayed
C6_Witness ==
    /\ w["w1"].pc = "done" /\ w["w1"].err = "Token expired"
    /\ sessions_collection # {}
    /\ \A s \in sessions_collection : s.token # w["w1"].token

\* C8: a register request (all three fields given) whose username or email
\* is that of a stored user is answered 400 and leaves the user store
\* unchanged; no two stored users share a username or an email.
C8_NoDuplicateUser ==
    /\ [](\A u1, u2 \in users_collection :
             (u1.username = u2.username \/ u1.email = u2.email) => u1 = u2)
    /\ [][\A p \in Workers :
            (Starts(p, {"register"})
                /\ DOMAIN w'[p].body = {"username", "email", "password"}
                /\ \A k \in DOMAIN w'[p].body : ~Falsy(w'[p].body[k])
                /\ \E u \in users_collection :
                      \/ u.username = w'[p].body["username"]
                      \/ u.email = w'[p].body["email"]) =>
                /\ w'[p].pc = "done"
                /\ w'[p].status = 400
                /\ w'[p].err = "Username or email already exists"
                /\ UNCHANGED users_collection
         ]_vars

\* a register with a fresh username and a stored email was refused
C8_Witness ==
    /\ w["w1"].pc = "done" /\ w["w1"].kind = "register" /\ w["w1"].status = 400
    /\ w["w1"].err = "Username or email already exists"
    /\ \E u \in users_collection :
          /\ u.email = w["w1"].body["email"]
          /\ u.username # w["w1"].body["username"]

\* C5: a login of user u whose delete_many and insert_one ran with no store
\* operation of another login of u in between leaves u with exactly one
\* session record, the one it inserted.
C5_EventuallyOne ==
    [][\A p \in Workers :
        (Runs(p, "login_insert") /\ w[p].solo) =>
            /\ w'[p].pc = "done"
            /\ SessionsOf(w[p].uid)' = {NewSession(w[p].token, w[p].uid, now)}
      ]_vars

\* an undisturbed login has completed after a race of two logins of the
\* same user, one of which was disturbed
C5_Witness ==
    /\ w["w1"].pc = "done" /\ w["w1"].kind = "login" /\ w["w1"].solo
    /\ w["w2"].pc = "done" /\ w["w2"].kind = "login" /\ ~w["w2"].solo
    /\ w["w1"].uid = w["w2"].uid
    /\ \E s \in sessions_collection :
          s.token = w["w1"].token /\ SessionsOf(w["w1"].uid) = {s}

\* the transient state C5 allows: two session records of one user
C5_TwoSessions ==
    \E s1, s2 \in sessions_collection : s1.user_id = s2.user_id /\ s1 # s2

\* C7 as stated: a logout with the token of a logout that has just
\* succeeded succeeds again.
C7_SecondLogoutSucceeds ==
    [][\A p \in Workers :
        (w[p].pc = "done" /\ w[p].kind = "logout" /\ w[p].status = 200
            /\ Starts(p, {"logout"}) /\ w'[p].token = w[p].token) =>
            w'[p].status # 401
      ]_vars

\* C7, amended: the delete_one of logout deletes the token's session record
\* and no other, and answers 200 whether or not a record was there; a logout
\* that follows a successful logout with the same token is refused by the
\* Auth Gate with 401 Invalid token and changes no store.
C7_RevokeIdempotent ==
    [][\A p \in Workers :
        /\ Runs(p, "logout_delete") =>
              /\ w'[p].pc = "done" /\ w'[p].status = 200
              /\ sessions_collection' =
                    sessions_collection \ {s \in sessions_collection : s.token = w[p].token}
              /\ UNCHANGED <<users_collection, tasks_collection>>
        /\ (Starts(p, {"logout"})
              /\ \E q \in Workers :
                    /\ w[q].pc = "done" /\ w[q].kind = "logout" /\ w[q].status = 200
                    /\ w[q].token = w'[p].token) =>
              /\ w'[p].pc = "done" /\ w'[p].status = 401
              /\ w'[p].err = "Invalid token"
              /\ UNCHANGED store
      ]_vars

\* one logout succeeded and a later one with the same token was refused
C7_Witness ==
    /\ w["w1"].pc = "done" /\ w["w1"].kind = "logout" /\ w["w1"].status = 200
    /\ w["w2"].pc = "done" /\ w["w2"].kind = "logout" /\ w["w2"].status = 401
    /\ w["w1"].token = w["w2"].token

\* two interleaved logouts with one token both answered 200
C7_BothRevoked ==
    /\ w["w1"].pc = "done" /\ w["w1"].kind = "logout" /\ w["w1"].status = 200
    /\ w["w2"].pc = "done" /\ w["w2"].kind = "logout" /\ w["w2"].status = 200
    /\ w["w1"].token = w["w2"].token

\* C9: a register request that passed the existence check and is stopped by
\* the unique index stores nothing and is answered with the 400 JSON error.
C9_LoserGets400 ==
    /\ \A u1, u2 \in users_collection :
          (u1.username = u2.username \/ u1.email = u2.email) => u1 = u2
    /\ \A p \in Workers :
          (w[p].pc = "done" /\ w[p].kind = "register" /\ w[p].status # 201) =>
              (w[p].status = 400 /\ w[p].err # "")

\* C1: a task carries the identity it was created under and keeps it; the
\* list answered to a user holds only tasks of that user; an update or a
\* delete carrying the id of a task of another user is answered 404 Task
\* not found and leaves the task store unchanged.  The identity of a
\* request is the user its token was generated for.
C1_OwnershipIsolation ==
    [][\A p \in Workers :
        /\ (Starts(p, Protected) /\ w'[p].uid # None) =>
              \E n \in 1..Len(issued) :
                  w'[p].token = TokenHex(n) /\ w'[p].uid = issued[n]
        /\ Runs(p, "create_task_insert") =>
              \E d \in tasks_collection' :
                  /\ d.user_id = w[p].uid
                  /\ d \notin tasks_collection
                  /\ tasks_collection' = tasks_collection \cup {d}
        /\ \A d \in tasks_collection, e \in tasks_collection' :
              d.id = e.id => e.user_id = d.user_id
        /\ Runs(p, "get_tasks_find") =>
              /\ w'[p].status = 200
              /\ \A i \in 1..Len(w'[p].out) : w'[p].out[i].user_id = w[p].uid
        /\ \A d \in tasks_collection :
              (d.user_id # w[p].uid /\ w[p].tid = OidStr(d.id)) =>
                  /\ w[p].pc \notin {"update_task_update", "update_task_reread"}
                  /\ (Runs(p, "update_task_find") \/ Runs(p, "delete_task_delete")) =>
                        /\ w'[p].pc = "done"
                        /\ w'[p].status = 404
                        /\ w'[p].err = "Task not found"
                        /\ tasks_collection' = tasks_collection
      ]_vars

\* an update under one user's token of a task of the other user was
\* answered 404, and the task is still there
C1_Witness ==
    /\ w["w1"].pc = "done" /\ w["w1"].kind = "update" /\ w["w1"].status = 404
    /\ \E d \in tasks_collection :
          /\ w["w1"].tid = OidStr(d.id)
          /\ w["w1"].uid # None
          /\ d.user_id # w["w1"].uid

PatchKeys == {"title", "description", "completed", "due_date", "due_time", "category"}

\* C10: the update_one of update_task changes the one task named: of the
\* six patchable fields exactly those present in the request take the
\* request's value, updated_at becomes the current time, id, user_id and
\* created_at stay; no task is added, removed or otherwise changed, and the
\* update is answered 200 with the stored record.
C10_PartialUpdate ==
    [][\A p \in Workers :
        /\ Runs(p, "update_task_update") =>
              /\ {e.id : e \in tasks_collection'} = {d.id : d \in tasks_collection}
              /\ \A d \in tasks_collection :
                    IF d.id # ObjectId(w[p].tid)
                    THEN d \in tasks_collection'
                    ELSE \E e \in tasks_collection' :
                            /\ e.id = d.id
                            /\ e.user_id = d.user_id
                            /\ e.created_at = d.created_at
                            /\ e.updated_at = now
                            /\ \A k \in PatchKeys :
                                  e[k] = IF k \in DOMAIN w[p].body
                                         THEN w[p].body[k] ELSE d[k]
              /\ \E d \in tasks_collection : d.id = ObjectId(w[p].tid)
              /\ UNCHANGED <<users_collection, sessions_collection>>
        /\ Runs(p, "update_task_reread") =>
              /\ w'[p].pc = "done" /\ w'[p].status = 200
              /\ \E d \in tasks_collection : w'[p].out = <<TaskJson(d)>>
              /\ UNCHANGED store
      ]_vars

\* an update with an empty patch was answered 200: the task has a later
\* updated_at and the fields it was created with
C10_Witness ==
    /\ w["w1"].pc = "done" /\ w["w1"].kind = "update" /\ w["w1"].status = 200
    /\ w["w1"].body = EmptyBody
    /\ \E d \in tasks_collection :
          /\ w["w1"].tid = OidStr(d.id)
          /\ d.updated_at = w["w1"].t
          /\ d.updated_at > d.created_at
          /\ d.title = "t" /\ d.completed = JFalse /\ d.category = "general"

\* C11: every task record in the store has a title, and the title is not
\* empty.
C11_TitleNonEmpty ==
    \A d \in tasks_collection : ~Falsy(d.title)

\* C12: an authenticated create whose title is missing or empty is answered
\* 400 Title is required and changes no store; one whose title is not empty
\* adds exactly one task, under a new id, owned by the caller, with
\* completed false whatever the request says, description "" , category
\* "general" and null due_date and due_time where the request gives none,
\* and is answered 201 with that record.
C12_CreateSemantics ==
    [][\A p \in Workers :
        /\ (Starts(p, {"create"}) /\ w'[p].uid # None) =>
              IF Falsy(Get(w'[p].body, "title", None))
              THEN /\ w'[p].pc = "done"
                   /\ w'[p].status = 400
                   /\ w'[p].err = "Title is required"
                   /\ UNCHANGED store
              ELSE w'[p].pc = "create_task_insert"
        /\ Runs(p, "create_task_insert") =>
              \E d \in tasks_collection' :
                  /\ tasks_collection' = tasks_collection \cup {d}
                  /\ \A e \in tasks_collection : e.id # d.id
                  /\ d.user_id = w[p].uid
                  /\ d.title = w[p].body["title"]
                  /\ d.completed = JFalse
                  /\ d.description = Get(w[p].body, "description", "")
                  /\ d.category = Get(w[p].body, "category", "general")
                  /\ d.due_date = Get(w[p].body, "due_date", None)
                  /\ d.due_time = Get(w[p].body, "due_time", None)
                  /\ w'[p].pc = "done"
                  /\ w'[p].status = 201
                  /\ w'[p].out = <<TaskJson(d)>>
                  /\ UNCHANGED <<users_collection, sessions_collection>>
      ]_vars

\* a create that asked for completed true stored an open task
C12_Witness ==
    /\ w["w1"].pc = "done" /\ w["w1"].kind = "create" /\ w["w1"].status = 201
    /\ Get(w["w1"].body, "completed", JFalse) = JTrue
    /\ \E d \in tasks_collection :
          /\ w["w1"].out = <<TaskJson(d)>>
          /\ d.completed = JFalse
          /\ d.user_id = w["w1"].uid

\* a create without a title was refused and stored nothing
C12_Refused ==
    /\ w["w1"].pc = "done" /\ w["w1"].kind = "create" /\ w["w1"].status = 400
    /\ w["w1"].body = EmptyBody
    /\ tasks_collection = {}

\* the task with the n-th generated id was stored and has been deleted
\* (insert_one stores the task in the step that generates its id)
Gone(n) == n \in 1..oids /\ \A d \in tasks_collection : d.id # n

\* C13: a delete answered 200 has removed the task; a deleted task is in
\* no later state of the task store, also when an update that had found it
\* runs its update_one after the delete; it is in no list answered later,
\* and an update or delete whose lookup runs later is answered 404 Task not
\* found.
C13_DeletePermanent ==
    [][\A p \in Workers :
        /\ (Runs(p, "delete_task_delete") /\ w'[p].status = 200) =>
              /\ \E d \in tasks_collection : d.id = ObjectId(w[p].tid)
              /\ Gone(ObjectId(w[p].tid))'
        /\ \A n \in 1..oids :
              Gone(n) =>
                /\ Gone(n)'
                /\ Runs(p, "get_tasks_find") =>
                      \A i \in 1..Len(w'[p].out) : w'[p].out[i].id # OidStr(n)
                /\ (w[p].tid = OidStr(n)
                      /\ (Runs(p, "update_task_find") \/ Runs(p, "delete_task_delete"))) =>
                      /\ w'[p].pc = "done"
                      /\ w'[p].status = 404
                      /\ w'[p].err = "Task not found"
                /\ (w[p].tid = OidStr(n) /\ Runs(p, "update_task_update")) =>
                      UNCHANGED tasks_collection
      ]_vars

\* a delete was answered 200 while an update of the same task was between
\* its lookup and its update_one; the update_one has run and the task is
\* still gone
C13_Witness ==
    /\ w["w1"].pc = "done" /\ w["w1"].kind = "delete" /\ w["w1"].status = 200
    /\ w["w2"].pc = "update_task_reread"
    /\ w["w2"].tid = w["w1"].tid
    /\ Gone(ObjectId(w["w1"].tid))

\* C14: the list answered to a user holds the JSON rendering of every
\* stored task with that user's user_id, each once, and nothing else; of
\* two tasks with different creation times the one created later comes
\* first; the request changes no store.
C14_ListResult ==
    [][\A p \in Workers :
        Runs(p, "get_tasks_find") =>
            LET mine == {d \in tasks_collection : d.user_id = w[p].uid}
                out == w'[p].out
            IN  /\ w'[p].pc = "done" /\ w'[p].status = 200
                /\ Len(out) = Cardinality(mine)
                /\ {out[i] : i \in 1..Len(out)} = {TaskJson(d) : d \in mine}
                /\ \A i, j \in 1..Len(out) : \A di, dj \in mine :
                      (i < j /\ out[i] = TaskJson(di) /\ out[j] = TaskJson(dj)) =>
                          di.created_at >= dj.created_at
                /\ UNCHANGED store
      ]_vars

\* three tasks created at three different times were listed newest first
C14_Witness ==
    /\ w["w1"].pc = "done" /\ w["w1"].kind = "list" /\ w["w1"].status = 200
    /\ Len(w["w1"].out) = 3
    /\ \E d1, d2, d3 \in tasks_collection :
          /\ d1.created_at < d2.created_at /\ d2.created_at < d3.created_at
          /\ w["w1"].out = <<TaskJson(d3), TaskJson(d2), TaskJson(d1)>>

\* a list left out the tasks of the other user
C14_OthersLeftOut ==
    /\ w["w1"].pc = "done" /\ w["w1"].kind = "list" /\ w["w1"].status = 200
    /\ Len(w["w1"].out) = 1
    /\ \E d \in tasks_collection : d.user_id # w["w1"].uid

\* a user without tasks was answered the empty list
C14_Empty ==
    /\ w["w1"].pc = "done" /\ w["w1"].kind = "list" /\ w["w1"].status = 200
    /\ w["w1"].out = <<>>
    /\ tasks_collection # {}

\* C15: a step adds a session record only as the insert_one of a login that
\* passed the credential check, and removes one only as the delete_one of a
\* logout carrying its token, as the delete_one of a validation that found
\* it expired, or as the delete_many of a login of its user; a record in
\* the store is never altered.
C15_SessionLifecycle ==
    [][/\ \A s \in sessions_collection' \ sessions_collection :
             \E p \in Workers :
                 /\ Runs(p, "login_insert")
                 /\ w[p].kind = "login"
                 /\ w'[p].status = 200
                 /\ s = NewSession(w[p].token, w[p].uid, now)
                 /\ \A o \in sessions_collection : o.token # s.token
       /\ \A s \in sessions_collection \ sessions_collection' :
             \E p \in Workers :
                 \/ Runs(p, "logout_delete") /\ w[p].kind = "logout"
                       /\ s.token = w[p].token
                 \/ Runs(p, "verify_token_evict") /\ s.token = w[p].token
                       /\ s.expires < now
                 \/ Runs(p, "login_delete_many") /\ w[p].kind = "login"
                       /\ s.user_id = w[p].uid
      ]_vars

\* a logout removed the record of its token and left another user's
C15_Witness ==
    /\ w["w1"].pc = "done" /\ w["w1"].kind = "logout" /\ w["w1"].status = 200
    /\ \A s \in sessions_collection : s.token # w["w1"].token
    /\ \E s \in sessions_collection : s.user_id # w["w1"].uid

\* C16: an authenticated update is answered 400 exactly when its task id is
\* malformed; for a well-formed id the answer is 404 or 200.
C16_UpdateClassified ==
    \A p \in Workers :
        (w[p].pc = "done" /\ w[p].kind = "update" /\ w[p].uid # None) =>
            IF OidValid(w[p].tid)
            THEN w[p].status \in {200, 404}
            ELSE w[p].status = 400

\* the first step of each wrapped handler, and the two handlers that answer
\* before any store operation
HandlerPc ==
    {"logout_delete", "get_tasks_find", "create_task_insert",
     "update_task_find", "delete_task_delete"}

\* C17: a protected request changes no store while it passes the gate.
\* Without a header it is answered 401 No token provided, with a token that
\* has no session record 401 Invalid token, and with one whose record is
\* expired 401 Token expired after the delete_one of that record and of no
\* other; in the three cases no identity is attached and the handler takes
\* no step.  Otherwise the handler runs under the user_id of the token's
\* session record.
C17_GateShortCircuit ==
    [][\A p \in Workers :
        /\ Starts(p, Protected) =>
              LET r == w'[p]
                  found == {s \in sessions_collection : s.token = r.token}
              IN  /\ UNCHANGED store
                  /\ r.hdr = <<>> =>
                        /\ r.pc = "done" /\ r.status = 401
                        /\ r.err = "No token provided" /\ r.uid = None
                  /\ (r.hdr # <<>> /\ found = {}) =>
                        /\ r.pc = "done" /\ r.status = 401
                        /\ r.err = "Invalid token" /\ r.uid = None
                  /\ \A s \in found :
                        IF s.expires < now
                        THEN r.pc = "verify_token_evict" /\ r.uid = None
                        ELSE /\ r.uid = s.user_id
                             /\ r.status # 401
                             /\ \/ r.pc \in HandlerPc
                                \/ r.kind = "verify" /\ r.status = 200
                                \/ r.kind = "create" /\ r.status = 400
        /\ Runs(p, "verify_token_evict") =>
              /\ w'[p].pc = "done" /\ w'[p].status = 401
              /\ w'[p].err = "Token expired" /\ w'[p].uid = None
              /\ sessions_collection' =
                    {s \in sessions_collection : s.token # w[p].token}
              /\ UNCHANGED <<users_collection, tasks_collection>>
        /\ (w[p].pc \in HandlerPc /\ w'[p] # w[p]) =>
              \E s \in sessions_collection :
                  s.token = w[p].token /\ s.user_id = w[p].uid
      ]_vars

\* a delete under an expired token was answered 401: the record of the
\* token is gone, the other user's record and the task are still there
C17_Witness ==
    /\ w["w1"].pc = "done" /\ w["w1"].kind = "delete"
    /\ w["w1"].status = 401 /\ w["w1"].err = "Token expired"
    /\ \A s \in sessions_collection : s.token # w["w1"].token
    /\ sessions_collection # {}
    /\ \E d \in tasks_collection : w["w1"].tid = OidStr(d.id)

\* an update under a token never stored was refused
C17_Unknown ==
    /\ w["w1"].pc = "done" /\ w["w1"].kind = "update"
    /\ w["w1"].status = 401 /\ w["w1"].err = "Invalid token"
    /\ \E d \in tasks_collection : w["w1"].tid = OidStr(d.id)

\* a create without a header was refused
C17_NoToken ==
    /\ w["w1"].pc = "done" /\ w["w1"].kind = "create"
    /\ w["w1"].status = 401 /\ w["w1"].err = "No token provided"
    /\ sessions_collection # {}

\* What C18 says of a token up to its first validation after expiry: the
\* login that inserts the session at t0 gives it expires = t0 + 24h; the
\* validation that follows the login succeeds iff now <= t0 + 24h; any
\* validation that finds the record succeeds when now <= expires and
\* otherwise goes on to answer 401 Token expired.
ExpiryBoundary(p) ==
    /\ Runs(p, "login_insert") =>
          /\ w'[p].t = now
          /\ \E s \in sessions_collection' :
                s.token = w[p].token /\ s.expires = now + SessionTTL
    /\ (w[p].pc = "done" /\ w[p].kind = "login" /\ w[p].status = 200
          /\ Starts(p, Protected) /\ w'[p].token = w[p].out[1]) =>
          IF now <= w[p].t + SessionTTL
          THEN w'[p].status # 401 /\ w'[p].pc # "verify_token_evict"
                  /\ w'[p].uid = w[p].uid
          ELSE w'[p].pc = "verify_token_evict"
    /\ Starts(p, Protected) =>
          \A s \in sessions_collection :
              s.token = w'[p].token =>
                  IF now <= s.expires
                  THEN w'[p].status # 401 /\ w'[p].pc # "verify_token_evict"
                  ELSE w'[p].pc = "verify_token_evict"
    /\ Runs(p, "verify_token_evict") =>
          w'[p].status = 401 /\ w'[p].err = "Token expired"

\* worker p, answered Token expired, presents the same token again: no
\* logout and no login lies between the two requests
Again(p) ==
    /\ w[p].pc = "done" /\ w[p].err = "Token expired"
    /\ Starts(p, Protected)
    /\ w'[p].token = w[p].token

\* C18 as stated: absent logout and re-login the token fails with Token
\* expired at every time after t0 + 24h, so also when it is presented again
\* after it was answered Token expired.
C18_ExpiredAtEveryTime ==
    [][\A p \in Workers :
        /\ ExpiryBoundary(p)
        /\ Again(p) => w'[p].pc = "verify_token_evict"
      ]_vars

\* C18, amended: the first validation after t0 + 24h fails with Token
\* expired; a validation that follows it fails with Invalid token.
C18_ExpiryBoundary ==
    [][\A p \in Workers :
        /\ ExpiryBoundary(p)
        /\ Again(p) =>
              /\ w'[p].pc = "done" /\ w'[p].status = 401
              /\ w'[p].err = "Invalid token"
      ]_vars

\* a token was accepted at the instant of its expiry
C18_Witness ==
    /\ w["w1"].pc = "done" /\ w["w1"].kind = "verify" /\ w["w1"].status = 200
    /\ \E s \in sessions_collection :
          s.token = w["w1"].token /\ s.expires = now /\ w["w1"].t = now

\* a token was refused as expired one tick after its expiry
C18_Late ==
    /\ w["w1"].pc = "verify_token_evict"
    /\ \E s \in sessions_collection :
          s.token = w["w1"].token /\ s.expires + 1 = now

\* the header with one leading "Bearer " removed when it starts with it
StripPrefix(h) == IF h # <<>> /\ h[1] = Bearer THEN Tail(h) ELSE h

\* C19: a request is accepted only if its header with one leading
\* "Bearer " removed is the string the Auth Gate looked up, and that string
\* is the token of a stored session that has not expired; a header with
\* "Bearer " elsewhere is not accepted.
C19_BearerPrefix ==
    \A p \in Workers :
        (w[p].pc = "done" /\ w[p].kind \in Protected /\ w[p].status = 200) =>
            /\ w[p].token = StripPrefix(w[p].hdr)
            /\ w[p].kind = "verify" =>
                  \E s \in sessions_collection :
                      s.token = StripPrefix(w[p].hdr) /\ s.expires >= w[p].t

\* the header a client sends, "Bearer " and a stored token, was accepted
C19_Usual ==
    /\ w["w1"].pc = "done" /\ w["w1"].kind = "verify" /\ w["w1"].status = 200
    /\ w["w1"].hdr = <<Bearer>> \o w["w1"].token

\* a header with "Bearer " inside the token was accepted
C19_Inside ==
    /\ w["w1"].pc = "done" /\ w["w1"].kind = "verify" /\ w["w1"].status = 200
    /\ w["w1"].hdr # <<>>
    /\ w["w1"].hdr[1] # Bearer
    /\ \E i \in 1..Len(w["w1"].hdr) : w["w1"].hdr[i] = Bearer

\* C20: a login without a username or a password is answered 400, one
\* whose username is unknown or whose password is wrong 401; a login
\* answered so changes no store and generates no token, and a request that
\* follows it under a stored, unexpired token of the named user passes the
\* Auth Gate as that user.
C20_FailedLoginNoEffect ==
    [][\A p \in Workers :
        /\ Starts(p, {"login"}) =>
              LET body == w'[p].body
                  missing == Falsy(Get(body, "username", None))
                                \/ Falsy(Get(body, "password", None))
              IN  /\ missing =>
                        /\ w'[p].pc = "done" /\ w'[p].status = 400
                        /\ w'[p].err = "Username and password required"
                  /\ (~missing /\ ~Matches(body)) =>
                        /\ w'[p].pc = "done" /\ w'[p].status = 401
                        /\ w'[p].err = "Invalid credentials"
                  /\ w'[p].pc = "done" =>
                        /\ w'[p].status \in {400, 401}
                        /\ UNCHANGED <<store, issued>>
        /\ (w[p].pc = "done" /\ w[p].kind = "login" /\ w[p].status \in {400, 401}
              /\ Starts(p, Protected)) =>
              \A s \in sessions_collection :
                  (s.token = w'[p].token /\ s.expires >= now
                      /\ s.user_id = Get(w[p].body, "username", None)) =>
                      /\ w'[p].status # 401
                      /\ w'[p].pc # "verify_token_evict"
                      /\ w'[p].uid = s.user_id
      ]_vars

\* a login with a wrong password for a user who holds a session was
\* answered 401, and the session is still in the store
C20_Witness ==
    /\ w["w1"].pc = "done" /\ w["w1"].kind = "login" /\ w["w1"].status = 401
    /\ \E u \in users_collection : u.username = w["w1"].body["username"]
    /\ \E s \in sessions_collection : s.user_id = w["w1"].body["username"]

\* a login without a password was answered 400
C20_Missing ==
    /\ w["w1"].pc = "done" /\ w["w1"].kind = "login" /\ w["w1"].status = 400
    /\ sessions_collection # {}

====
